---- MODULE Spec2Model ----
(***************************************************************************)
(* Turbospectrum grid runner (scripts/run_turbospectrum.py).               *)
(*                                                                         *)
(* Units.  Teff is an integer number of kelvin.  logg and [Fe/H] are kept  *)
(* in thousandths (4.04 dex is 4040), so that the one-decimal and          *)
(* two-decimal formatting of get_model_filename and the 0.01 tolerance of  *)
(* find_bracketing_models are real conversions.  Values that sit exactly   *)
(* on a rounding tie (x.x5 for logg, x.xx5 for [Fe/H]) or exactly 0.01     *)
(* apart are kept out of the inputs: their outcome depends on the binary   *)
(* floating point representation.                                          *)
(***************************************************************************)
EXTENDS Integers, Sequences, FiniteSets, TLC

\* ------------------------------------------------------------------ bounds
MaxAxis == 3       \* distinct catalog values per axis in the resolver inputs
MaxPoints == 2     \* grid points of one batch
NumWorkers == 2    \* most worker processes of a pool (multiprocessing.cpu_count())
MaxRows == 3       \* largest max_rows of a sampling configuration
MaxRange == 3      \* largest max of a min/max/step range
MaxLines == 3      \* most lines of a spectrum file

\* --------------------------------------------------------------- constants
LoggUnit == 100    \* f"{logg:+.1f}": one decimal, in thousandths
FehUnit == 10      \* f"{feh:+.2f}": two decimals, in thousandths
Tol == 10          \* abs(...) < 0.01, in thousandths

None == [kind |-> "None"]

Abs(x) == IF x < 0 THEN -x ELSE x

Min(S) == CHOOSE x \in S : \A y \in S : x <= y

\* Python's f"{x:+.Nf}": an explicit sign and the magnitude rounded to the
\* nearest multiple of unit (sign kept when the magnitude rounds to zero).
FormatSigned(x, unit) ==
    [sign |-> IF x < 0 THEN "-" ELSE "+", mag |-> (Abs(x) + unit \div 2) \div unit]

\* float(match.group(k)) on a string written by FormatSigned
ParseSigned(s, unit) == IF s.sign = "-" THEN -(s.mag * unit) ELSE s.mag * unit

\* logg written with two decimals, like FeH
get_model_filename_LoggTwoDecimals(teff, logg, feh, turb_str) ==
    [teff |-> teff, g |-> FormatSigned(logg, FehUnit), t |-> turb_str,
     z |-> FormatSigned(feh, FehUnit)]

get_model_filename(teff, logg, feh, turb_str) ==
    [teff |-> teff, g |-> FormatSigned(logg, LoggUnit), t |-> turb_str,
     z |-> FormatSigned(feh, FehUnit)]

\* One available_models entry for a file name of the model directory.
ModelRecord(f) ==
    [teff |-> f.teff, logg |-> ParseSigned(f.g, LoggUnit),
     feh |-> ParseSigned(f.z, FehUnit), turb |-> f.t, path |-> f]

\* _scan_models: every *.mod name of the directory, parsed.
scan_models(files) == { ModelRecord(f) : f \in files }

RECURSIVE sorted(_)
sorted(S) == IF S = {} THEN <<>> ELSE LET m == Min(S) IN <<m>> \o sorted(S \ {m})

IndexError == [kind |-> "raise", exc |-> "IndexError"]

\* values[k] of a Python list held as a 1-based sequence; k is 0-based.
Item(values, k) ==
    IF k + 1 \in 1..Len(values) THEN [kind |-> "ok", v |-> values[k + 1]] ELSE IndexError

\* values[-k] of a Python list
ItemFromEnd(values, k) ==
    IF Len(values) - k + 1 \in 1..Len(values)
    THEN [kind |-> "ok", v |-> values[Len(values) - k + 1]] ELSE IndexError

\* return a, b
Pair(a, b) ==
    IF a.kind = "raise" \/ b.kind = "raise" THEN IndexError
    ELSE [kind |-> "ok", lo |-> a.v, hi |-> b.v]

get_bracket(values, target) ==
    IF target <= values[1] THEN Pair(Item(values, 0), Item(values, 1))
    ELSE IF target >= values[Len(values)]
         THEN Pair(ItemFromEnd(values, 2), ItemFromEnd(values, 1))
    ELSE LET hits == { i \in 1..(Len(values) - 1) :
                         values[i] <= target /\ target < values[i + 1] }
         IN  IF hits # {} THEN Pair(Item(values, Min(hits) - 1), Item(values, Min(hits)))
             ELSE Pair(Item(values, 0), Item(values, 1))

\* the corner loops nested the other way round: FeH outer, Teff inner
Corner_FehOuter(tb, gb, zb, i) ==
    [teff |-> <<tb.lo, tb.hi>>[((i - 1) % 2) + 1],
     logg |-> <<gb.lo, gb.hi>>[(((i - 1) \div 2) % 2) + 1],
     feh |-> <<zb.lo, zb.hi>>[((i - 1) \div 4) + 1]]

\* for t in [t1, t2]: for g in [g1, g2]: for z in [z1, z2]
Corner(tb, gb, zb, i) ==
    [teff |-> <<tb.lo, tb.hi>>[((i - 1) \div 4) + 1],
     logg |-> <<gb.lo, gb.hi>>[(((i - 1) \div 2) % 2) + 1],
     feh |-> <<zb.lo, zb.hi>>[((i - 1) % 2) + 1]]

Matches(candidates, c) ==
    { m \in candidates : m.teff = c.teff /\ Abs(m.logg - c.logg) < Tol
                         /\ Abs(m.feh - c.feh) < Tol }

\* the corner loop going on past an absent corner instead of returning
RECURSIVE CornerLoop_Continue(_, _, _, _, _, _)
CornerLoop_Continue(candidates, tb, gb, zb, i, brackets) ==
    IF i > 8 THEN [kind |-> "ok", brackets |-> brackets]
    ELSE LET c == Corner(tb, gb, zb, i)
             match == Matches(candidates, c)
         IN  CornerLoop_Continue(candidates, tb, gb, zb, i + 1,
                IF match = {} THEN brackets
                ELSE Append(brackets, (CHOOSE m \in match : TRUE).path))

RECURSIVE CornerLoop(_, _, _, _, _, _)
CornerLoop(candidates, tb, gb, zb, i, brackets) ==
    IF i > 8 THEN [kind |-> "ok", brackets |-> brackets]
    ELSE LET c == Corner(tb, gb, zb, i)
             match == Matches(candidates, c)
         IN  IF match = {}
             THEN [kind |-> "error", msg |-> [what |-> "Missing grid point",
                                              teff |-> c.teff, logg |-> c.logg, feh |-> c.feh]]
             ELSE CornerLoop(candidates, tb, gb, zb, i + 1,
                             Append(brackets, (CHOOSE m \in match : TRUE).path))

find_bracketing_models(available_models, target_teff, target_logg, target_feh, target_turb) ==
    LET candidates == { m \in available_models : m.turb = target_turb }
        teffs == sorted({ m.teff : m \in candidates })
        loggs == sorted({ m.logg : m \in candidates })
        fehs == sorted({ m.feh : m \in candidates })
    IN  IF candidates = {}
        THEN [kind |-> "error", msg |-> [what |-> "No models found with matching turbulence"]]
        ELSE \* each bracket is computed once, as the three assignments do
             CHOOSE found \in
                 { IF tb.kind = "raise" \/ gb.kind = "raise" \/ zb.kind = "raise"
                   THEN IndexError
                   ELSE CornerLoop(candidates, tb, gb, zb, 1, <<>>) :
                       tb \in {get_bracket(teffs, target_teff)},
                       gb \in {get_bracket(loggs, target_logg)},
                       zb \in {get_bracket(fehs, target_feh)} } : TRUE

\* The stdin text of interpol_modeles: 8 quoted corner paths, the output
\* path, the auxiliary path and the target.
interpol_input(brackets, teff, logg, feh, output_path) ==
    [models |-> brackets, output |-> output_path,
     alt |-> [dir |-> "tmp", base |-> output_path, ext |-> ".mod.alt"],
     teff |-> teff, logg |-> logg, feh |-> feh]

\* ---------------------------------------------------------------- state
VARIABLES
    r_pc,        \* resolver harness: "call" before interpolate, "done" after
    r_models,    \* ModelInterpolator.available_models
    r_target,    \* the (teff, logg, feh, turb_str) passed to interpolate
    r_result,    \* what interpolate returned (or the exception it raised)
    r_tool       \* the stdin texts handed to interpol_modeles, in order

rvars == <<r_pc, r_models, r_target, r_result, r_tool>>

VARIABLES
    config,          \* TurbospectrumConfig (grid_points, force, calculate_intensity) and num_cpus
    model_dir,       \* model_atmosphere_path: file name -> first line of the file
    out_dir,         \* output_dir: the result files that exist
    log_dir,         \* log_dir: base name -> the blocks of the log file on disk
    opac_dir,        \* model_opac_dir: the opacity files that exist
    tmp_dir,         \* tmp_dir: the auxiliary interpolation outputs that exist
    linelist_file,   \* tmp_dir/linelists.txt: "absent" or "written"
    main_pc,         \* run_grid: "setup", "pool", "done" or "raised"
    manifest_writes, \* how often this run_grid call wrote linelists.txt
    dirs_made,       \* how often this run_grid call ran ensure_directories
    next_task,       \* index of the next task the pool hands to a free worker
    pc,              \* per job: the place run_single_synthesis has reached
    local,           \* per job: brackets, is_marcs and the unflushed log text
    value,           \* MapResult._value: per task index, what the worker sent back
    results,         \* what pool.map returned to run_grid
    success_count,   \* run_grid's summary count
    run,             \* 1 for the first run_grid call, 2 for the second
    calls,           \* per job: the external tools it invoked, in order
    writes,          \* per job: the files it created or wrote
    scans,           \* the catalogs that _scan_models returned during this run
    completed,       \* the job indices in the order the jobs returned
    prev             \* config, value and calls of the previous run

fsvars == <<model_dir, out_dir, log_dir, opac_dir, tmp_dir, linelist_file>>
poolvars == <<main_pc, manifest_writes, dirs_made, next_task, pc, local, value, results, success_count>>
histvars == <<run, calls, writes, scans, completed, prev>>
evars == <<config, fsvars, poolvars, histvars>>

VARIABLES
    g_pc,        \* generate_grid: "resolve", "sample", "write", "done" or "raised"
    g_config,    \* the YAML configuration: parameter specs, method, max_rows, seed
    g_run,       \* 1 for the first generate_grid call, 2 for the second
    g_rng,       \* the generator of this run and the number of calls made on it
    g_memo,      \* what the generator of the configured seed returned, call by call
    g_lists,     \* parameter_lists, in param_names order
    g_iter,      \* parameter_combinations: the iterator the row loop consumes
    g_rows,      \* the tuples the row loop has received, in order
    g_prev       \* the tuples the first run received

gvars == <<g_pc, g_config, g_run, g_rng, g_memo, g_lists, g_iter, g_rows, g_prev>>

VARIABLES
    s_pc,        \* read_spectrum harness: "call" before the call, "done" after
    s_file,      \* the lines of the spectrum file
    s_result     \* what read_spectrum returned (or the exception it raised)

svars == <<s_pc, s_file, s_result>>

vars == <<rvars, evars, gvars, svars>>

\* the grid generator at rest
SamplerIdle ==
    /\ g_pc = "idle" /\ g_config = None /\ g_run = 0 /\ g_rng = None /\ g_memo = <<>>
    /\ g_lists = <<>> /\ g_iter = None /\ g_rows = <<>> /\ g_prev = None

\* the spectrum reader at rest
ParserIdle == s_pc = "idle" /\ s_file = <<>> /\ s_result = None

\* the engine at rest, for the specifications that do not run it
EngineIdle ==
    /\ config = None /\ model_dir = <<>> /\ out_dir = {} /\ log_dir = <<>>
    /\ opac_dir = {} /\ tmp_dir = {} /\ linelist_file = "absent"
    /\ main_pc = "idle" /\ manifest_writes = 0 /\ dirs_made = 0
    /\ next_task = 0 /\ pc = <<>> /\ local = <<>> /\ value = <<>> /\ results = <<>>
    /\ success_count = 0 /\ run = 0 /\ calls = <<>> /\ writes = <<>> /\ scans = {}
    /\ completed = <<>> /\ prev = None

\* the resolver harness at rest
ResolverIdle ==
    /\ r_pc = "idle" /\ r_models = {} /\ r_target = None /\ r_result = None
    /\ r_tool = <<>>

\* ------------------------------------------------- resolver on its own
AxisT == { 5000 + 500 * i : i \in 0..(MaxAxis - 1) }
AxisG == { 4000 + 500 * i : i \in 0..(MaxAxis - 1) }
AxisZ == { 500 * i - 500 : i \in 0..(MaxAxis - 1) }

Max(S) == CHOOSE x \in S : \A y \in S : y <= x

\* the whole axis, its two ends, or its lowest value alone
AxisChoices(A) == { A, {Min(A), Max(A)}, {Min(A)} }

Around(A) == { Min(A) - 200 } \cup A \cup { v + 200 : v \in A }

\* the name of the catalog model of a grid node (logg a whole number of
\* tenths, FeH a whole number of hundredths): p<Teff>_g<+X.Y>_..._t<turb>_st_z<+X.YY>
CatalogName(t, g, z, turb) ==
    [teff |-> t, g |-> [sign |-> IF g < 0 THEN "-" ELSE "+", mag |-> Abs(g) \div 100],
     t |-> turb, z |-> [sign |-> IF z < 0 THEN "-" ELSE "+", mag |-> Abs(z) \div 10]]

GridFiles(TS, GS, ZS, turb) ==
    { CatalogName(t, g, z, turb) : t \in TS, g \in GS, z \in ZS }

\* a model of another turbulence id, always present
OtherTurb == GridFiles({Min(AxisT)}, {Min(AxisG)}, {Min(AxisZ)}, "02")

\* the model directories the resolver is tried on: a full rectangle over a
\* choice of values per axis; the full grid with one model absent, or with
\* the models of one (logg, FeH) pair absent at every Teff; or no model of
\* the turbulence id at all
ResolverCatalogs ==
    { GridFiles(TS, GS, ZS, "01") :
        TS \in AxisChoices(AxisT), GS \in AxisChoices(AxisG), ZS \in AxisChoices(AxisZ) }
    \cup { GridFiles(AxisT, AxisG, AxisZ, "01") \ {f} :
            f \in GridFiles(AxisT, AxisG, AxisZ, "01") }
    \cup { GridFiles(AxisT, AxisG, AxisZ, "01") \ GridFiles(AxisT, {g}, {z}, "01") :
            g \in AxisG, z \in AxisZ }
    \cup { {} }

ResolverInit ==
    /\ EngineIdle /\ SamplerIdle /\ ParserIdle
    /\ r_pc = "call"
    /\ \E files \in ResolverCatalogs : r_models = scan_models(files \cup OtherTurb)
    /\ r_target \in [teff : Around(AxisT), logg : Around(AxisG), feh : Around(AxisZ),
                      turb : {"01"}]
    /\ r_result = None
    /\ r_tool = <<>>

\* ModelInterpolator.interpolate, its bracket search failing or raising
ResolveFail ==
    /\ r_pc = "call"
    /\ LET fb == find_bracketing_models(r_models, r_target.teff, r_target.logg,
                                        r_target.feh, r_target.turb)
       IN  /\ fb.kind # "ok"
           /\ r_result' = IF fb.kind = "raise" THEN fb
                          ELSE [kind |-> "return", ok |-> FALSE, message |-> fb.msg]
    /\ r_pc' = "done"
    /\ UNCHANGED <<r_models, r_target, r_tool, evars, gvars, svars>>

\* ModelInterpolator.interpolate, running the external tool
ResolveRun ==
    /\ r_pc = "call"
    /\ LET fb == find_bracketing_models(r_models, r_target.teff, r_target.logg,
                                        r_target.feh, r_target.turb)
           out == get_model_filename(r_target.teff, r_target.logg, r_target.feh,
                                     r_target.turb)
       IN  /\ fb.kind = "ok"
           /\ r_tool' = Append(r_tool, interpol_input(fb.brackets, r_target.teff,
                                        r_target.logg, r_target.feh, out))
           /\ \E outcome \in {"exit0", "exit1", "exception"} :
                r_result' = IF outcome = "exit0"
                            THEN [kind |-> "return", ok |-> TRUE, message |-> "Success"]
                            ELSE [kind |-> "return", ok |-> FALSE,
                                  message |-> IF outcome = "exit1" THEN "Interpolation failed"
                                              ELSE "Interpolation execution error"]
    /\ r_pc' = "done"
    /\ UNCHANGED <<r_models, r_target, evars, gvars, svars>>

ResolverNext == ResolveFail \/ ResolveRun

SpecResolver == ResolverInit /\ [][ResolverNext]_vars

\* ------------------------------------------------------ the grid engine
\* The model directory of the project: for turbulence id 01 a full 2x2x2
\* rectangle, for 02 the same rectangle with one model absent, for 03 a
\* single Teff, for 04 nothing.
StandardModels ==
    GridFiles({5000, 6000}, {4000, 5000}, {0, 500}, "01")
    \cup (GridFiles({5000, 6000}, {4000, 5000}, {0, 500}, "02")
            \ {CatalogName(6000, 5000, 0, "02")})
    \cup GridFiles({5000}, {4000, 5000}, {0, 500}, "03")

Point(teff, logg, feh, turb) == [teff |-> teff, logg |-> logg, feh |-> feh, turb |-> turb]

\* the grid points a configuration may list
PointSet ==
    { Point(5000, 4000, 0, "01"), Point(5000, 4040, 4, "01"),
      Point(5500, 4500, 250, "01"), Point(5500, 4500, 250, "02"),
      Point(5500, 4500, 250, "03"), Point(5500, 4500, 250, "04") }

Jobs == 1..Len(config.grid_points)

\* the jobs that occupy a worker process
Active == { j \in Jobs : pc[j] \notin {"queued", "done"} }

model_file(j) ==
    LET p == config.grid_points[j] IN get_model_filename(p.teff, p.logg, p.feh, p.turb)

model_path(j) == [dir |-> "model", base |-> model_file(j), ext |-> ".mod"]
log_file(j) == [dir |-> "log", base |-> model_file(j), ext |-> ".log"]
opac_path(j) == [dir |-> "opac", base |-> model_file(j), ext |-> "opac"]
alt_path(j) == [dir |-> "tmp", base |-> model_file(j), ext |-> ".mod.alt"]

ResultFile(base, intensity) ==
    [dir |-> "output", base |-> base,
     ext |-> IF intensity THEN ".intensity.spec" ELSE ".spec"]

\* the flux file expected in either mode
expected_output_FluxOnly(j) == ResultFile(model_file(j), FALSE)

\* lines 281-285: expected_outputs[0]
expected_output(j) == ResultFile(model_file(j), config.calculate_intensity)

\* the synthesis result written without the mode's suffix
current_result_file_NoSuffix(j) == ResultFile(model_file(j), FALSE)

\* lines 370-387: current_result_file of the one synthesis run
current_result_file(j) == ResultFile(model_file(j), config.calculate_intensity)

NewLocal == [brackets |-> <<>>, is_marcs |-> TRUE, log_open |-> FALSE, log_buf |-> <<>>]

\* a project in which nothing has run yet
FreshProject ==
    /\ ResolverIdle /\ SamplerIdle /\ ParserIdle
    /\ model_dir = [f \in StandardModels |-> "MARCS"]
    /\ log_dir = <<>> /\ opac_dir = {} /\ tmp_dir = {}
    /\ linelist_file = "absent"
    /\ main_pc = "setup" /\ manifest_writes = 0 /\ dirs_made = 0 /\ next_task = 1
    /\ pc = [j \in 1..MaxPoints |-> "queued"]
    /\ local = [j \in 1..MaxPoints |-> NewLocal]
    /\ value = [j \in 1..MaxPoints |-> None]
    /\ results = <<>> /\ success_count = 0 /\ run = 1
    /\ calls = [j \in 1..MaxPoints |-> <<>>]
    /\ writes = [j \in 1..MaxPoints |-> {}]
    /\ scans = {} /\ completed = <<>> /\ prev = None

\* one run_grid call; an earlier session may have left a result file of
\* the first grid point, in either mode
EngineInit ==
    /\ FreshProject
    /\ config \in [grid_points : [1..MaxPoints -> PointSet], force : BOOLEAN,
                   calculate_intensity : BOOLEAN, num_cpus : 1..NumWorkers]
    /\ \E left \in {{}} \cup { {ResultFile(model_file(1), i)} : i \in BOOLEAN } :
         out_dir = left

\* the grid points of the two-run scenario
RerunPoints ==
    { Point(5000, 4000, 0, "01"), Point(5500, 4500, 250, "01"),
      Point(5500, 4500, 250, "02") }

\* two run_grid calls in a row, without --force, on a single-CPU machine and
\* a project with no output yet
RerunInit ==
    /\ FreshProject
    /\ config \in [grid_points : [1..MaxPoints -> RerunPoints], force : {FALSE},
                   calculate_intensity : BOOLEAN, num_cpus : {1}]
    /\ out_dir = {}

\* a run_grid that goes on to the pool leaving the setup to the jobs
Setup_Unwritten ==
    /\ main_pc = "setup"
    /\ main_pc' = "pool"
    /\ UNCHANGED <<config, fsvars, manifest_writes, dirs_made, next_task, pc, local,
                   value, results, success_count, histvars, rvars, gvars, svars>>

\* ensure_directories and create_linelist_file, before the pool exists
Setup ==
    /\ main_pc = "setup"
    /\ linelist_file' = "written"
    /\ manifest_writes' = manifest_writes + 1
    /\ dirs_made' = dirs_made + 1
    /\ main_pc' = "pool"
    /\ UNCHANGED <<config, model_dir, out_dir, log_dir, opac_dir, tmp_dir, next_task, pc, local,
                   value, results, success_count, histvars, rvars, gvars, svars>>

\* run_single_synthesis going on to its next place
Goto(j, place) ==
    /\ pc' = [pc EXCEPT ![j] = place]
    /\ UNCHANGED <<value, completed>>

\* the pool storing what the workers send back in the order of arrival
Return_ArrivalOrder(j, res) ==
    /\ pc' = [pc EXCEPT ![j] = "done"]
    /\ value' = [value EXCEPT ![Len(completed) + 1] = res]
    /\ completed' = Append(completed, j)

\* run_single_synthesis returning res (or raising) in its worker, and the
\* pool storing what the worker sent back under the task's index
Return(j, res) ==
    /\ pc' = [pc EXCEPT ![j] = "done"]
    /\ value' = [value EXCEPT ![j] = res]
    /\ completed' = Append(completed, j)

\* a free worker takes the next task: lines 259-294
StartJob(j) ==
    /\ main_pc = "pool" /\ j \in Jobs /\ j = next_task
    /\ Cardinality(Active) < config.num_cpus
    /\ next_task' = next_task + 1
    /\ IF ~config.force /\ expected_output(j) \in out_dir
       THEN Return(j, [kind |-> "WARNING", what |-> "Skipping, output exists",
                       base |-> model_file(j)])
       ELSE /\ Goto(j, "check_model")
    /\ UNCHANGED <<config, fsvars, main_pc, manifest_writes, dirs_made, local, results, success_count,
                   run, calls, writes, scans, prev, rvars, gvars, svars>>

\* line 297: os.path.exists(model_path)
CheckModel(j) ==
    /\ j \in Jobs /\ pc[j] = "check_model"
    /\ Goto(j, IF model_file(j) \in DOMAIN model_dir THEN "read_model" ELSE "scan")
    /\ UNCHANGED <<config, fsvars, main_pc, manifest_writes, dirs_made, next_task, local, results,
                   success_count, run, calls, writes, scans, prev, rvars, gvars, svars>>

\* lines 301-304 and 210-212: ModelInterpolator(config), find_bracketing_models
ScanModels(j) ==
    /\ j \in Jobs /\ pc[j] = "scan"
    /\ \E available_models \in {scan_models(DOMAIN model_dir)} :
       \E p \in {config.grid_points[j]} :
       \E fb \in {find_bracketing_models(available_models, p.teff, p.logg, p.feh, p.turb)} :
           /\ scans' = scans \cup {available_models}
           /\ IF fb.kind = "ok"
              THEN /\ Goto(j, "interpol")
                   /\ local' = [local EXCEPT ![j].brackets = fb.brackets]
              ELSE /\ Return(j, IF fb.kind = "raise" THEN fb
                                ELSE [kind |-> "ERROR",
                                      what |-> "Model not found and interpolation failed",
                                      base |-> model_file(j), reason |-> fb.msg])
                   /\ UNCHANGED local
    /\ UNCHANGED <<config, fsvars, main_pc, manifest_writes, dirs_made, next_task, results,
                   success_count, run, calls, writes, prev, rvars, gvars, svars>>

\* interpol_modeles opens its output model file
InterpolWrite(j) ==
    /\ j \in Jobs /\ pc[j] = "interpol"
    /\ model_dir' = (model_file(j) :> "EMPTY") @@ model_dir
    /\ writes' = [writes EXCEPT ![j] = @ \cup {model_path(j)}]
    /\ Goto(j, "interpol_w")
    /\ UNCHANGED <<config, out_dir, log_dir, opac_dir, tmp_dir, linelist_file, main_pc, manifest_writes, dirs_made,
                   next_task, local, value, results, success_count, run, calls, scans,
                   prev, rvars, gvars, svars>>

InterpolCall(j, outcome) ==
    LET p == config.grid_points[j]
    IN  [tool |-> "interpol", outcome |-> outcome,
         stdin |-> interpol_input(local[j].brackets, p.teff, p.logg, p.feh, model_file(j))]

\* lines 243-257 and 303-304: subprocess.run of interpol_modeles is over
InterpolExit(j, outcome) ==
    /\ j \in Jobs /\ pc[j] \in {"interpol", "interpol_w"}
    /\ outcome \in {"exception", "exit1", "exit0", "exit0_nofile"}
    /\ pc[j] = "interpol_w" => outcome \in {"exit1", "exit0"}
    /\ calls' = [calls EXCEPT ![j] = Append(@, InterpolCall(j, outcome))]
    /\ IF outcome = "exit0"
       THEN /\ model_dir' = (model_file(j) :> "INTERPOL") @@ model_dir
            /\ tmp_dir' = tmp_dir \cup {alt_path(j)}
            /\ writes' = [writes EXCEPT ![j] = @ \cup {model_path(j), alt_path(j)}]
       ELSE UNCHANGED <<model_dir, tmp_dir, writes>>
    /\ IF outcome \in {"exit0", "exit0_nofile"}
       THEN /\ Goto(j, "read_model")
       ELSE Return(j, [kind |-> "ERROR",
                       what |-> "Model not found and interpolation failed",
                       base |-> model_file(j),
                       reason |-> [what |-> IF outcome = "exit1" THEN "Interpolation failed"
                                            ELSE "Interpolation execution error"]])
    /\ UNCHANGED <<config, out_dir, log_dir, opac_dir, linelist_file, main_pc, manifest_writes, dirs_made,
                   next_task, local, results, success_count, run, scans, prev, rvars, gvars, svars>>

\* a flag decided by whether this job ran the interpolation
ReadModel_ByProvenance(j) ==
    /\ j \in Jobs /\ pc[j] = "read_model"
    /\ local' = [local EXCEPT ![j].is_marcs = calls[j] = <<>>]
    /\ Goto(j, "open_log")
    /\ UNCHANGED <<config, fsvars, main_pc, manifest_writes, dirs_made, next_task, results,
                   success_count, run, calls, writes, scans, prev, rvars, gvars, svars>>

\* lines 309-319: the first line of the model file decides is_marcs
ReadModel(j) ==
    /\ j \in Jobs /\ pc[j] = "read_model"
    /\ local' = [local EXCEPT ![j].is_marcs =
                    ~(model_file(j) \in DOMAIN model_dir
                      /\ model_dir[model_file(j)] = "INTERPOL")]
    /\ Goto(j, "open_log")
    /\ UNCHANGED <<config, fsvars, main_pc, manifest_writes, dirs_made, next_task, results,
                   success_count, run, calls, writes, scans, prev, rvars, gvars, svars>>

\* line 321: open(log_file, "w"), outside any try
OpenLog(j, ok) ==
    /\ j \in Jobs /\ pc[j] = "open_log" /\ ok \in BOOLEAN
    /\ IF ok
       THEN /\ log_dir' = (model_file(j) :> <<>>) @@ log_dir
            /\ writes' = [writes EXCEPT ![j] = @ \cup {log_file(j)}]
            /\ local' = [local EXCEPT ![j].log_open = TRUE]
            /\ Goto(j, "babsma")
       ELSE /\ Return(j, [kind |-> "raise", exc |-> "OSError"])
            /\ UNCHANGED <<log_dir, writes, local>>
    /\ UNCHANGED <<config, model_dir, out_dir, opac_dir, tmp_dir, linelist_file, main_pc, manifest_writes, dirs_made,
                   next_task, results, success_count, run, calls, scans, prev, rvars, gvars, svars>>

babsma_input(j) ==
    [MODELINPUT |-> model_path(j),
     MARCS_FILE |-> IF local[j].is_marcs THEN ".true." ELSE ".false.",
     MODELOPAC |-> opac_path(j), METALLICITY |-> config.grid_points[j].feh]

\* an opacity stage whose failure return drops the text still buffered
Babsma_Unflushed(j, outcome) ==
    /\ j \in Jobs /\ pc[j] = "babsma"
    /\ outcome \in {"exception", "exit1", "exit0"}
    /\ calls' = [calls EXCEPT ![j] = Append(@, [tool |-> "babsma", outcome |-> outcome,
                                                 stdin |-> babsma_input(j)])]
    /\ LET buf == <<"Starting synthesis", "BABSMA INPUT">>
           ondisk == IF outcome = "exception" THEN log_dir
                     ELSE [log_dir EXCEPT ![model_file(j)] = Append(@, "babsma output")]
       IN  IF outcome = "exit0"
           THEN /\ log_dir' = ondisk
                /\ local' = [local EXCEPT ![j].log_buf = buf]
                /\ opac_dir' = opac_dir \cup {opac_path(j)}
                /\ writes' = [writes EXCEPT ![j] = @ \cup {opac_path(j)}]
                /\ Goto(j, "bsyn")
           ELSE /\ log_dir' = ondisk
                /\ Return(j, IF outcome = "exit1"
                             THEN [kind |-> "ERROR", what |-> "babsma failed",
                                   base |-> model_file(j)]
                             ELSE [kind |-> "EXCEPTION", what |-> "babsma execution failed",
                                   base |-> model_file(j)])
                /\ UNCHANGED <<local, opac_dir, writes>>
    /\ UNCHANGED <<config, model_dir, out_dir, tmp_dir, linelist_file, main_pc, manifest_writes, dirs_made, next_task,
                   results, success_count, run, scans, prev, rvars, gvars, svars>>

\* lines 322-359: the opacity stage
Babsma(j, outcome) ==
    /\ j \in Jobs /\ pc[j] = "babsma"
    /\ outcome \in {"exception", "exit1", "exit0"}
    /\ calls' = [calls EXCEPT ![j] = Append(@, [tool |-> "babsma", outcome |-> outcome,
                                                 stdin |-> babsma_input(j)])]
    /\ LET buf == <<"Starting synthesis", "BABSMA INPUT">>
           ondisk == IF outcome = "exception" THEN log_dir
                     ELSE [log_dir EXCEPT ![model_file(j)] = Append(@, "babsma output")]
       IN  IF outcome = "exit0"
           THEN /\ log_dir' = ondisk
                /\ local' = [local EXCEPT ![j].log_buf = buf]
                /\ opac_dir' = opac_dir \cup {opac_path(j)}
                /\ writes' = [writes EXCEPT ![j] = @ \cup {opac_path(j)}]
                /\ Goto(j, "bsyn")
           ELSE /\ log_dir' = [ondisk EXCEPT ![model_file(j)] = @ \o buf]
                /\ Return(j, IF outcome = "exit1"
                             THEN [kind |-> "ERROR", what |-> "babsma failed",
                                   base |-> model_file(j)]
                             ELSE [kind |-> "EXCEPTION", what |-> "babsma execution failed",
                                   base |-> model_file(j)])
                /\ UNCHANGED <<local, opac_dir, writes>>
    /\ UNCHANGED <<config, model_dir, out_dir, tmp_dir, linelist_file, main_pc, manifest_writes, dirs_made, next_task,
                   results, success_count, run, scans, prev, rvars, gvars, svars>>

bsyn_input(j) ==
    [INTENSITY_FLUX |-> IF config.calculate_intensity THEN "Intensity" ELSE "Flux",
     MODELOPAC |-> opac_path(j), RESULTFILE |-> current_result_file(j),
     METALLICITY |-> config.grid_points[j].feh]

\* lines 370-430: the synthesis stage and the end of the with block
Bsyn(j, outcome, wrote) ==
    /\ j \in Jobs /\ pc[j] = "bsyn"
    /\ outcome \in {"exception", "exit1", "exit0"} /\ wrote \in BOOLEAN
    /\ outcome = "exception" => ~wrote
    /\ calls' = [calls EXCEPT ![j] = Append(@, [tool |-> "bsyn", outcome |-> outcome,
                                                 wrote |-> wrote, stdin |-> bsyn_input(j)])]
    /\ LET buf == Append(local[j].log_buf, "BSYN INPUT")
           ondisk == IF outcome = "exception" THEN log_dir
                     ELSE [log_dir EXCEPT ![model_file(j)] = Append(@, "bsyn output")]
       IN  log_dir' = [ondisk EXCEPT ![model_file(j)] = @ \o buf]
    /\ IF wrote
       THEN /\ out_dir' = out_dir \cup {current_result_file(j)}
            /\ writes' = [writes EXCEPT ![j] = @ \cup {current_result_file(j)}]
       ELSE UNCHANGED <<out_dir, writes>>
    /\ Return(j, IF outcome = "exit0" THEN [kind |-> "SUCCESS", base |-> model_file(j)]
                 ELSE IF outcome = "exit1"
                 THEN [kind |-> "ERROR", what |-> "bsyn failed", base |-> model_file(j)]
                 ELSE [kind |-> "EXCEPTION", what |-> "bsyn execution failed",
                       base |-> model_file(j)])
    /\ UNCHANGED <<config, model_dir, opac_dir, tmp_dir, linelist_file, main_pc, manifest_writes, dirs_made, next_task,
                   local, results, success_count, run, scans, prev, rvars, gvars, svars>>

AllDone == \A j \in Jobs : pc[j] = "done"
Raised == { j \in Jobs : value[j].kind = "raise" }

\* a run_grid that prints what has come back so far
Summary_Partial ==
    /\ main_pc = "pool" /\ Raised = {}
    /\ results' = value
    /\ success_count' = Cardinality({ j \in Jobs : value[j].kind = "SUCCESS" })
    /\ main_pc' = "done"
    /\ UNCHANGED <<config, fsvars, manifest_writes, dirs_made, next_task, pc, local, value,
                   histvars, rvars, gvars, svars>>

\* lines 456-468: pool.map returns the list and run_grid prints the summary
Summary ==
    /\ main_pc = "pool" /\ AllDone /\ Raised = {}
    /\ results' = value
    /\ success_count' = Cardinality({ j \in Jobs : value[j].kind = "SUCCESS" })
    /\ main_pc' = "done"
    /\ UNCHANGED <<config, fsvars, manifest_writes, dirs_made, next_task, pc, local, value, histvars,
                   rvars, gvars, svars>>

\* line 456: pool.map re-raises the exception a worker sent back
MapRaise ==
    /\ main_pc = "pool" /\ AllDone /\ Raised # {}
    /\ main_pc' = "raised"
    /\ UNCHANGED <<config, fsvars, manifest_writes, dirs_made, next_task, pc, local, value, results,
                   success_count, histvars, rvars, gvars, svars>>

\* main() is started once more with the same configuration file
Rerun ==
    /\ main_pc \in {"done", "raised"} /\ run = 1
    /\ run' = 2
    /\ prev' = [value |-> value, calls |-> calls, main_pc |-> main_pc]
    /\ UNCHANGED config
    /\ main_pc' = "setup" /\ manifest_writes' = 0 /\ dirs_made' = 0 /\ next_task' = 1
    /\ pc' = [j \in Jobs |-> "queued"]
    /\ local' = [j \in Jobs |-> NewLocal]
    /\ value' = [j \in Jobs |-> None]
    /\ results' = <<>> /\ success_count' = 0
    /\ calls' = [j \in Jobs |-> <<>>]
    /\ writes' = [j \in Jobs |-> {}]
    /\ scans' = {} /\ completed' = <<>>
    /\ UNCHANGED <<fsvars, rvars, gvars, svars>>

Next ==
    \/ Setup
    \/ \E j \in 1..MaxPoints : StartJob(j)
    \/ \E j \in 1..MaxPoints : CheckModel(j)
    \/ \E j \in 1..MaxPoints : ScanModels(j)
    \/ \E j \in 1..MaxPoints : InterpolWrite(j)
    \/ \E j \in 1..MaxPoints, o \in {"exception", "exit1", "exit0", "exit0_nofile"} :
         InterpolExit(j, o)
    \/ \E j \in 1..MaxPoints : ReadModel(j)
    \/ \E j \in 1..MaxPoints, ok \in BOOLEAN : OpenLog(j, ok)
    \/ \E j \in 1..MaxPoints, o \in {"exception", "exit1", "exit0"} : Babsma(j, o)
    \/ \E j \in 1..MaxPoints, o \in {"exception", "exit1", "exit0"}, w \in BOOLEAN :
         Bsyn(j, o, w)
    \/ Summary
    \/ MapRaise

Spec == EngineInit /\ [][Next]_vars

NextRerun == Next \/ Rerun

SpecRerun == RerunInit /\ [][NextRerun]_vars

\* --------------------------------------------- properties of the engine
Last(q) == q[Len(q)]

\* the job ended by the synthesis tool returning exit status 0
EndedInSynthesis(j) ==
    calls[j] # <<>> /\ Last(calls[j]).tool = "bsyn" /\ Last(calls[j]).outcome = "exit0"

\* C1: when run_grid has its result list, the list has one entry per grid
\* point and its i-th entry is the outcome of the i-th grid point (it names
\* that point and tells what that point's job did), whatever the number of
\* workers and the order in which the jobs returned.
C1_InputOrderPreserved ==
    main_pc = "done" =>
        /\ Len(results) = Len(config.grid_points)
        /\ \A i \in 1..Len(config.grid_points) :
              /\ results[i].base = model_file(i)
              /\ (results[i].kind = "SUCCESS") <=> EndedInSynthesis(i)
              /\ (results[i].kind = "WARNING") => calls[i] = <<>>

\* the second job returned before the first, the two are different grid
\* points with different outcomes, and the summary has been made
C1_Witness ==
    /\ main_pc = "done" /\ Len(completed) >= 2 /\ completed[1] = 2 /\ completed[2] = 1
    /\ model_file(1) # model_file(2)
    /\ results[1].kind = "SUCCESS" /\ results[2].kind = "ERROR"

\* C2: no failure inside run_single_synthesis is raised out of the worker,
\* and the batch always reaches its result list with every job in it.
C2_FailureNeverEscapes ==
    /\ \A j \in Jobs : value[j].kind # "raise"
    /\ main_pc # "raised"

\* the result file the job's mode expects, spelled out
ExpectedForMode(j) ==
    [dir |-> "output", base |-> model_file(j),
     ext |-> IF config.calculate_intensity THEN ".intensity.spec" ELSE ".spec"]

C3_SkipStep ==
    \A j \in 1..MaxPoints :
        (j \in Jobs /\ pc[j] = "queued" /\ pc'[j] # "queued") =>
            IF ~config.force /\ ExpectedForMode(j) \in out_dir
            THEN pc'[j] = "done" /\ value'[j].kind = "WARNING"
            ELSE pc'[j] = "check_model" /\ value'[j] = None

C3_SkippedDidNothing ==
    \A j \in Jobs :
        (pc[j] = "done" /\ value[j].kind = "WARNING") =>
            /\ ~config.force
            /\ calls[j] = <<>> /\ writes[j] = {}

\* C3: without force a job returns Skipped exactly when the result file its
\* mode expects exists (.spec for Flux, .intensity.spec for Intensity, the
\* other mode's file not counting), and then it invokes no tool and creates
\* or truncates no file; with force it never returns Skipped and goes on to
\* model acquisition.
C3_SkipSemantics == [][C3_SkipStep]_vars /\ []C3_SkippedDidNothing

\* an Intensity batch is over in which the first job was skipped on the
\* intensity file an earlier session left and the second one ran to Success
C3_Witness ==
    /\ main_pc = "done" /\ config.calculate_intensity /\ ~config.force
    /\ value[1].kind = "WARNING" /\ value[2].kind = "SUCCESS"
    /\ ResultFile(model_file(2), FALSE) \notin out_dir

ToolCount(q, tool) == Cardinality({ k \in 1..Len(q) : q[k].tool = tool })

\* the first run is over, every job of it returned Success and its synthesis
\* tool wrote the result file
FirstRunAllWrote ==
    /\ run = 2 /\ ~config.force
    /\ \A j \in Jobs : /\ prev.value[j].kind = "SUCCESS"
                       /\ Last(prev.calls[j]).tool = "bsyn" /\ Last(prev.calls[j]).wrote

\* C4: when every job of a first run without force returned Success with its
\* result file written, every job of the second run returns Skipped and
\* invokes no tool, so that over both runs each tool ran at most once per
\* grid point.
C4_IdempotentRerun ==
    FirstRunAllWrote =>
        \A j \in Jobs :
            /\ pc[j] \in {"queued", "done"}
            /\ pc[j] = "done" => value[j].kind = "WARNING"
            /\ calls[j] = <<>>
            /\ \A tool \in {"interpol", "babsma", "bsyn"} :
                  ToolCount(prev.calls[j], tool) + ToolCount(calls[j], tool) <= 1

\* the second run is over after a first run in which some job interpolated
\* its model
C4_Witness ==
    /\ FirstRunAllWrote /\ main_pc = "done"
    /\ \E j \in Jobs : ToolCount(prev.calls[j], "interpol") = 1
    /\ \A j \in Jobs : value[j].kind = "WARNING"

\* C5: two jobs that run at the same time in different workers never write
\* the same file (result, log, opacity or interpolated model).
C5_DisjointWrites ==
    \A j1 \in Active, j2 \in Active : j1 # j2 => writes[j1] \cap writes[j2] = {}

\* C6: during a run nothing in the scanned model directory is added, removed
\* or rewritten, and every catalog scan of the run yields the same records.
C6_CatalogImmutable ==
    /\ model_dir = [f \in StandardModels |-> "MARCS"]
    /\ Cardinality(scans) <= 1

\* logg and FeH as the catalog file name gives them, in thousandths
NameLogg(f) == IF f.g.sign = "-" THEN -(f.g.mag * 100) ELSE f.g.mag * 100
NameFeh(f) == IF f.z.sign = "-" THEN -(f.z.mag * 10) ELSE f.z.mag * 10

\* a model of the job's Teff and turbulence id within 0.01 on logg and FeH
WithinTolerance(j) ==
    LET p == config.grid_points[j]
    IN  \E f \in DOMAIN model_dir :
            /\ f.teff = p.teff /\ f.t = p.turb
            /\ Abs(NameLogg(f) - p.logg) <= 10 /\ Abs(NameFeh(f) - p.feh) <= 10

\* the model whose name carries the job's Teff and turbulence id, its logg
\* with sign rounded to one decimal and its FeH with sign rounded to two
NamedAfterTarget(j) ==
    LET p == config.grid_points[j]
    IN  \E f \in DOMAIN model_dir :
            /\ f.teff = p.teff /\ f.t = p.turb
            /\ f.g.sign = (IF p.logg < 0 THEN "-" ELSE "+")
            /\ 2 * Abs(f.g.mag * 100 - Abs(p.logg)) < 100
            /\ f.z.sign = (IF p.feh < 0 THEN "-" ELSE "+")
            /\ 2 * Abs(f.z.mag * 10 - Abs(p.feh)) < 10

ModelChecked(j) == j \in Jobs /\ pc[j] = "check_model" /\ pc'[j] # "check_model"

\* C10 as claimed: a job uses an existing model file directly, without
\* interpolation, if and only if a model of the same Teff and turbulence id
\* lies within 0.01 of the target on logg and on FeH.
C10_ExactMatchTolerance ==
    [][\A j \in 1..MaxPoints :
          ModelChecked(j) => (pc'[j] = "read_model" <=> WithinTolerance(j))]_vars

\* C10 amended: a job uses an existing model file directly if and only if
\* the model directory holds the file named after the target, with logg
\* rounded to one decimal and FeH to two decimals.
C10_ExactMatchByName ==
    [][\A j \in 1..MaxPoints :
          ModelChecked(j) => (pc'[j] = "read_model" <=> NamedAfterTarget(j))]_vars

\* a job whose target logg is 4.04 reads the logg 4.0 catalog model as its
\* own, having run no interpolation
C10_Witness ==
    \E j \in Jobs : /\ config.grid_points[j].logg = 4040
                    /\ pc[j] = "read_model" /\ calls[j] = <<>>
                    /\ ~WithinTolerance(j)

\* ------------------------------------------- properties of the resolver
r_candidates == { m \in r_models : m.turb = r_target.turb }
r_teffs == { m.teff : m \in r_candidates }
r_loggs == { m.logg : m \in r_candidates }
r_fehs == { m.feh : m \in r_candidates }

r_HasEntry(t, g, z) ==
    \E m \in r_models : m.turb = r_target.turb /\ m.teff = t /\ m.logg = g /\ m.feh = z

\* the catalog of the turbulence id is a full rectangle
r_Complete ==
    LET T == r_teffs
        G == r_loggs
        Z == r_fehs
    IN  \A t \in T, g \in G, z \in Z : r_HasEntry(t, g, z)

StrictlyInside(V, x) == V # {} /\ Min(V) < x /\ x < Max(V)
AtOrBeyondEdge(V, x) == V # {} /\ (x <= Min(V) \/ x >= Max(V))

\* the adjacent values of V around an interior x: lower <= x < upper
LowerOf(V, x) == Max({ v \in V : v <= x })
UpperOf(V, x) == Min({ v \in V : v > x })

\* the two lowest / two highest values of V (V has at least two)
TwoLowest(V) == <<Min(V), Min(V \ {Min(V)})>>
TwoHighest(V) == <<Max(V \ {Max(V)}), Max(V)>>

\* the bracket of x in V as the design states it
DesignPair(V, x) ==
    IF x <= Min(V) THEN TwoLowest(V)
    ELSE IF x >= Max(V) THEN TwoHighest(V)
    ELSE <<LowerOf(V, x), UpperOf(V, x)>>

EightCorners(tp, gp, zp) ==
    << <<tp[1], gp[1], zp[1]>>, <<tp[1], gp[1], zp[2]>>,
       <<tp[1], gp[2], zp[1]>>, <<tp[1], gp[2], zp[2]>>,
       <<tp[2], gp[1], zp[1]>>, <<tp[2], gp[1], zp[2]>>,
       <<tp[2], gp[2], zp[1]>>, <<tp[2], gp[2], zp[2]>> >>

r_Bracketable ==
    /\ r_candidates # {}
    /\ Cardinality(r_teffs) >= 2 /\ Cardinality(r_loggs) >= 2 /\ Cardinality(r_fehs) >= 2

r_Corners ==
    LET tp == DesignPair(r_teffs, r_target.teff)
        gp == DesignPair(r_loggs, r_target.logg)
        zp == DesignPair(r_fehs, r_target.feh)
    IN  EightCorners(tp, gp, zp)

r_Absent ==
    LET cs == r_Corners
    IN  { i \in 1..8 : ~r_HasEntry(cs[i][1], cs[i][2], cs[i][3]) }

\* C7: when one of the 8 bracket corners has no catalog entry for the
\* requested turbulence id, interpolate returns failure with the "missing
\* grid point" error naming the first absent corner in corner order and the
\* interpolation tool is not invoked; the tool only ever gets 8 corner paths.
C7_NoPartialInterpolation ==
    /\ \A k \in 1..Len(r_tool) : Len(r_tool[k].models) = 8
    /\ (r_pc = "done" /\ r_Bracketable) =>
         LET absent == r_Absent
         IN  absent # {} =>
             LET c == r_Corners[Min(absent)]
             IN
             /\ r_tool = <<>>
             /\ r_result = [kind |-> "return", ok |-> FALSE,
                             message |-> [what |-> "Missing grid point", teff |-> c[1],
                                          logg |-> c[2], feh |-> c[3]]]

\* a resolution that failed with two corners absent, the first of them not
\* the first corner
C7_Witness ==
    /\ r_pc = "done" /\ r_Bracketable /\ Cardinality(r_Absent) = 2 /\ Min(r_Absent) > 1
    /\ r_result.kind = "return" /\ ~r_result.ok /\ r_tool = <<>>

\* C8: for a complete rectangular catalog and a target strictly inside it on
\* all three axes, the tool receives exactly the 8 corners of the enclosing
\* cuboid of adjacent catalog values (lower <= target < upper), Teff varying
\* slowest, logg in the middle and FeH fastest.
C8_InteriorBracket ==
    (/\ r_pc = "done"
     /\ StrictlyInside(r_teffs, r_target.teff)
     /\ StrictlyInside(r_loggs, r_target.logg)
     /\ StrictlyInside(r_fehs, r_target.feh)
     /\ r_Complete) =>
        LET tp == <<LowerOf(r_teffs, r_target.teff), UpperOf(r_teffs, r_target.teff)>>
            gp == <<LowerOf(r_loggs, r_target.logg), UpperOf(r_loggs, r_target.logg)>>
            zp == <<LowerOf(r_fehs, r_target.feh), UpperOf(r_fehs, r_target.feh)>>
            cs == EightCorners(tp, gp, zp)
        IN  /\ Len(r_tool) = 1
            /\ r_tool[1].models =
                  [i \in 1..8 |-> CatalogName(cs[i][1], cs[i][2], cs[i][3], r_target.turb)]

\* an interior target that sits on a catalog value on one axis and between
\* two values on another, resolved against a catalog with a third value
C8_Witness ==
    /\ r_pc = "done" /\ r_Complete /\ Len(r_tool) = 1
    /\ StrictlyInside(r_teffs, r_target.teff) /\ r_target.teff \in r_teffs
    /\ StrictlyInside(r_loggs, r_target.logg) /\ r_target.logg \notin r_loggs
    /\ StrictlyInside(r_fehs, r_target.feh)

\* C9: for every non-empty set of catalog entries of the turbulence id (a
\* single distinct value on an axis included) and every target at or beyond
\* the catalog minimum or maximum on an axis, the bracket search completes
\* without raising.
C9_EdgeClampNeverRaises ==
    (/\ r_pc = "done" /\ r_candidates # {}
     /\ \/ AtOrBeyondEdge(r_teffs, r_target.teff)
        \/ AtOrBeyondEdge(r_loggs, r_target.logg)
        \/ AtOrBeyondEdge(r_fehs, r_target.feh)) => r_result.kind # "raise"

\* ------------------------------------------ stage ordering inside a job
StageRank(tool) == IF tool = "interpol" THEN 1 ELSE IF tool = "babsma" THEN 2 ELSE 3

\* the tool returned with exit status zero
ZeroExit(c) == c.outcome \in {"exit0", "exit0_nofile"}

\* the job's tool calls are in stage order, each tool at most once, each
\* after a zero exit of the one before; synthesis directly follows opacity;
\* interpolation is called only for a model file the catalog did not hold
StageOrder(j) ==
    LET q == calls[j]
    IN  /\ \A k \in 1..(Len(q) - 1) :
              StageRank(q[k].tool) < StageRank(q[k + 1].tool) /\ ZeroExit(q[k])
        /\ \A k \in 1..Len(q) :
              /\ q[k].tool = "bsyn" => (k > 1 /\ q[k - 1].tool = "babsma")
              /\ q[k].tool = "interpol" => model_file(j) \notin StandardModels

C11_StageOrderKept == \A j \in Jobs : StageOrder(j)

\* a step in which job j ends on a failure: the bracket search did not give
\* 8 corners, or the tool just called did not return zero
FailureStep(j) ==
    /\ pc[j] # "done" /\ pc'[j] = "done"
    /\ \/ pc[j] = "scan"
       \/ /\ Len(calls'[j]) = Len(calls[j]) + 1
          /\ ~ZeroExit(Last(calls'[j]))

ErrorResult(v) == v.kind \in {"ERROR", "EXCEPTION"}

C11_FailureStep ==
    \A j \in Jobs :
        /\ FailureStep(j) => ErrorResult(value'[j])
        /\ pc[j] = "done" => calls'[j] = calls[j]

\* C11: inside one job the external tools are invoked in the order
\* interpolation (only when the expected model file is absent), opacity,
\* synthesis, each at most once and each only after the previous one returned
\* zero; the first failure (resolver failure, non-zero exit or launch
\* exception) makes the job return an Error result and no later tool is
\* invoked for that grid point.
C11_StageOrdering == []C11_StageOrderKept /\ [][C11_FailureStep]_vars

\* ------------------------------------------- a tool that never returns
\* the grid points of the scenario with hanging tools: one served by a
\* catalog model, one to interpolate, one whose bracket search raises
HangPoints ==
    { Point(5000, 4000, 0, "01"), Point(5500, 4500, 250, "01"),
      Point(5500, 4500, 250, "03") }

HangInit ==
    /\ FreshProject
    /\ config \in [grid_points : [1..MaxPoints -> HangPoints], force : {TRUE},
                   calculate_intensity : {FALSE}, num_cpus : 1..NumWorkers]
    /\ out_dir = {}

\* subprocess.run is called without a timeout (lines 244, 348, 417): the
\* tool job j is waiting for never returns, and the worker waits forever
Hang(j) ==
    /\ j \in Jobs /\ pc[j] \in {"interpol", "interpol_w", "babsma", "bsyn"}
    /\ Goto(j, "hung")
    /\ UNCHANGED <<config, fsvars, main_pc, manifest_writes, dirs_made, next_task, local, results,
                   success_count, run, calls, writes, scans, prev, rvars, gvars, svars>>

NextHang ==
    \/ Next
    \/ \E j \in 1..MaxPoints : Hang(j)

\* the operating system keeps running the main process and the workers, and
\* a tool that does not hang returns: whatever step of the main process or
\* of a job stays possible is eventually taken
Fairness ==
    /\ WF_vars(Setup) /\ WF_vars(Summary) /\ WF_vars(MapRaise)
    /\ \A j \in 1..MaxPoints :
          /\ WF_vars(StartJob(j)) /\ WF_vars(CheckModel(j))
          /\ WF_vars(ScanModels(j)) /\ WF_vars(ReadModel(j))
          /\ WF_vars(\E ok \in BOOLEAN : OpenLog(j, ok))
          /\ WF_vars(InterpolWrite(j)
                     \/ \E o \in {"exception", "exit1", "exit0", "exit0_nofile"} :
                           InterpolExit(j, o))
          /\ WF_vars(\E o \in {"exception", "exit1", "exit0"} : Babsma(j, o))
          /\ WF_vars(\E o \in {"exception", "exit1", "exit0"}, w \in BOOLEAN : Bsyn(j, o, w))

SpecHang == HangInit /\ [][NextHang]_vars /\ Fairness

Hung == { j \in Jobs : pc[j] = "hung" }

\* every job has returned, hangs, or waits for a worker while all hang
Settled ==
    \A j \in Jobs :
        \/ pc[j] \in {"done", "hung"}
        \/ pc[j] = "queued" /\ Cardinality(Hung) = config.num_cpus

C12_HangBlocks ==
    /\ [](Hung # {} => main_pc = "pool")
    /\ [][\A j \in Jobs : pc[j] = "hung" => pc'[j] = "hung"]_vars
    /\ <>[]Settled

C12_Delivers == [](Hung = {}) => <>(main_pc = "done" /\ Len(results) = Len(config.grid_points))

\* C12: run_grid delivers a result for every grid point and prints its
\* summary provided every external tool invocation eventually returns; if one
\* invocation never returns, its worker stays blocked forever and the batch
\* never reaches the summary, while the jobs on the other workers still
\* complete.
C12_TerminationWithoutTimeout == C12_Delivers /\ C12_HangBlocks

\* ------------------------------------------------- the grid generator
\* Numbers are integers: an abundance is held in thousandths, so that
\* f"{value:+.2f}" is FormatSigned(value, FehUnit).  An optional setting
\* (max_rows, seed, count) is <<>> when absent and <<v>> when set to v.

CeilDiv(a, b) == (a + b - 1) \div b

\* np.arange(start, stop, step) on integers, step > 0
arange(start, stop, step) ==
    [i \in 1..(IF stop > start THEN CeilDiv(stop - start, step) ELSE 0) |->
        start + (i - 1) * step]

\* line 42: np.arange(cfg['min'], cfg['max'] + cfg['step'], cfg['step'])
range_values(cfg) == arange(cfg.min, cfg.max + cfg.step, cfg.step)

\* lines 23-26: numbers are written with sign and two decimals, strings kept
format_abundance_value(numeric, v) ==
    IF numeric THEN FormatSigned(v, FehUnit) ELSE v

\* lines 34-42 and 68-70 of _resolve_values, for a scalar, a list or a range
resolve_static(cfg, is_abundance) ==
    LET values == IF cfg.kind = "scalar" THEN <<cfg.value>>
                  ELSE IF cfg.kind = "list" THEN cfg.values
                  ELSE range_values(cfg)
    IN  IF is_abundance
        THEN [i \in 1..Len(values) |-> format_abundance_value(cfg.numeric, values[i])]
        ELSE values

RECURSIVE Concat(_)
Concat(ss) == IF ss = <<>> THEN <<>> ELSE Head(ss) \o Concat(Tail(ss))

\* itertools.product(*values_only): the last list varies fastest
RECURSIVE product(_)
product(lists) ==
    IF lists = <<>> THEN << <<>> >>
    ELSE LET rest == product(Tail(lists))
         IN  Concat([i \in 1..Len(Head(lists)) |->
                       [k \in 1..Len(rest) |-> <<Head(lists)[i]>> \o rest[k]]])

\* itertools.islice(combos, n), n >= 0
islice(combos, n) == SubSeq(combos, 1, Min({n, Len(combos)}))

\* line 81: islice(combos, max_rows) if max_rows else combos
full_rows(lists, max_rows) ==
    IF max_rows # <<>> /\ max_rows[1] # 0 THEN islice(product(lists), max_rows[1])
    ELSE product(lists)

\* np.tile(np.arange(len(values)), repeats), 0-based indices
tile(length, repeats) == [i \in 1..(length * repeats) |-> (i - 1) % length]

\* every index drawn from the start of the list: no tiling
base_indices_Untiled(length, n) == [i \in 1..n |-> 0]

\* lines 95-96: np.tile(np.arange(len(values)), repeats)[: int(max_rows)]
base_indices(length, n) ==
    LET repeats == CeilDiv(n, length)
        tiled == tile(length, repeats)
    IN  SubSeq(tiled, 1, Min({n, Len(tiled)}))

\* rng.permutation(n): the arrangements of 0 .. n-1
permutation(n) ==
    { q \in [1..n -> 0..(n - 1)] : \A i, k \in 1..n : i # k => q[i] # q[k] }

\* lines 97-101: row r takes values[base_indices[perm[r]]] of every parameter
lhs_rows(lists, n, perms) ==
    [r \in 1..n |->
        [k \in 1..Len(lists) |->
            lists[k][base_indices(Len(lists[k]), n)[perms[k][r] + 1] + 1]]]

\* the parameter specifications a configuration may hold for teff: a
\* scalar, value lists (one with a repeated value) and min/max/step ranges
TeffSpecs ==
    { [kind |-> "scalar", value |-> 10],
      [kind |-> "list", values |-> <<10, 20>>],
      [kind |-> "list", values |-> <<10, 20, 30>>],
      [kind |-> "list", values |-> <<10, 10>>] }
    \cup { [kind |-> "range", min |-> mn, max |-> mx, step |-> st] :
             mn \in 0..1, mx \in 1..MaxRange, st \in 1..2 }

\* "+0.00"
ZeroAbundance == [sign |-> "+", mag |-> 0]

\* and for the abundance a: the default list of one string, a list of two
\* numbers that are written alike (0.000 and 0.004), and distributions with
\* and without a count
AbundSpecs ==
    { [kind |-> "list", numeric |-> FALSE, values |-> <<ZeroAbundance>>],
      [kind |-> "list", numeric |-> TRUE, values |-> <<0, 4>>],
      [kind |-> "distribution", type |-> "gaussian", count |-> <<2>>],
      [kind |-> "distribution", type |-> "gaussian", count |-> <<>>],
      [kind |-> "distribution", type |-> "poisson", count |-> <<2>>] }

\* rng.normal(0.0, 0.1, n): n values, each one sigma below or above the mean
normal(n) == [1..n -> {-100, 100}]

\* a generator that never takes the seed
default_rng_Unseeded(seed) == [kind |-> "entropy", pos |-> 0]

\* line 124: np.random.default_rng(seed) when a seed is configured; without
\* one every user makes its own generator from fresh entropy (lines 50, 87)
default_rng(seed) ==
    [kind |-> IF seed # <<>> THEN "seeded" ELSE "entropy", pos |-> 0]

\* One call on the generator, st = [pos, memo]: a seeded generator returns
\* what the generator of that seed returned at this position before, and
\* otherwise any of Outcomes, which it then returns at this position for ever.
rng_call(st, Outcomes) ==
    LET replay == g_rng.kind = "seeded" /\ st.pos < Len(st.memo)
    IN  { [out |-> o, pos |-> st.pos + 1,
           memo |-> IF g_rng.kind = "seeded" /\ ~replay THEN Append(st.memo, o)
                    ELSE st.memo] :
            o \in (IF replay THEN {st.memo[st.pos + 1]} ELSE Outcomes) }

RngState == [pos |-> g_rng.pos, memo |-> g_memo]

Raise(exc) == [kind |-> "raise", exc |-> exc]

\* the configurations generate_grid is run on: every teff specification
\* with a listed abundance, and a two-valued teff list with every
\* abundance specification; every method, max_rows absent or 0 .. MaxRows,
\* with and without a seed
SamplerConfigs ==
    LET Listed == { c \in AbundSpecs : c.kind = "list" }
        Sampling == [method : {"full", "random", "latin_hypercube", "sobol"},
                     max_rows : {<<>>} \cup { <<k>> : k \in 0..MaxRows },
                     seed : {<<>>, <<7>>}]
        Params == (TeffSpecs \X Listed)
                  \cup ({[kind |-> "list", values |-> <<10, 20>>]} \X AbundSpecs)
    IN  { [teff |-> ps[1], a |-> ps[2], method |-> sm.method, max_rows |-> sm.max_rows,
           seed |-> sm.seed] : ps \in Params, sm \in Sampling }

SamplerInit ==
    /\ EngineIdle /\ ResolverIdle /\ ParserIdle
    /\ g_config \in SamplerConfigs
    /\ g_pc = "resolve" /\ g_run = 1
    /\ g_rng = default_rng(g_config.seed) /\ g_memo = <<>>
    /\ g_lists = <<>> /\ g_iter = None /\ g_rows = <<>> /\ g_prev = None

\* generate_grid ends with an exception
GridRaise(exc) ==
    /\ g_pc' = "raised"
    /\ g_iter' = Raise(exc)

\* lines 130-134: _resolve_values for teff, then for the abundance a
ResolveValues ==
    /\ g_pc = "resolve"
    /\ LET teffs == resolve_static(g_config.teff, FALSE)
           cfg == g_config.a
           count == IF cfg.kind = "distribution" /\ cfg.count # <<>> THEN cfg.count
                    ELSE g_config.max_rows
       IN  IF cfg.kind # "distribution"
           THEN /\ g_lists' = <<teffs, resolve_static(cfg, TRUE)>>
                /\ g_pc' = "sample"
                /\ UNCHANGED <<g_rng, g_memo, g_iter>>
           ELSE IF count = <<>> \/ cfg.type # "gaussian"
           THEN /\ GridRaise("ValueError")
                /\ UNCHANGED <<g_rng, g_memo, g_lists>>
           ELSE \E c \in rng_call(RngState, { [normal |-> q] : q \in normal(count[1]) }) :
                  /\ g_lists' = <<teffs, [i \in 1..count[1] |->
                                            format_abundance_value(TRUE, c.out.normal[i])]>>
                  /\ g_rng' = [g_rng EXCEPT !.pos = c.pos]
                  /\ g_memo' = c.memo
                  /\ g_pc' = "sample"
                  /\ UNCHANGED g_iter
    /\ UNCHANGED <<g_config, g_run, g_rows, g_prev, rvars, evars, svars>>

\* line 146: _sample_parameter_space(parameter_lists, sampling_cfg, rng)
SampleParameterSpace ==
    /\ g_pc = "sample"
    /\ LET method == g_config.method
           max_rows == g_config.max_rows
       IN  IF method = "full"
           THEN /\ g_iter' = [kind |-> "seq", rows |-> full_rows(g_lists, max_rows)]
                /\ g_pc' = "write"
                /\ UNCHANGED <<g_rng, g_memo>>
           ELSE IF max_rows = <<>>
           THEN GridRaise("ValueError") /\ UNCHANGED <<g_rng, g_memo>>
           ELSE IF method = "random"
           THEN /\ g_iter' = [kind |-> "random", left |-> max_rows[1]]
                /\ g_pc' = "write"
                /\ UNCHANGED <<g_rng, g_memo>>
           ELSE IF method = "latin_hypercube"
           THEN \E c1 \in rng_call(RngState, { [perm |-> q] : q \in permutation(max_rows[1]) }) :
                  IF Len(g_lists[2]) = 0
                  THEN /\ GridRaise("ZeroDivisionError")
                       /\ g_rng' = [g_rng EXCEPT !.pos = c1.pos]
                       /\ g_memo' = c1.memo
                  ELSE \E c2 \in rng_call([pos |-> c1.pos, memo |-> c1.memo],
                                          { [perm |-> q] : q \in permutation(max_rows[1]) }) :
                         /\ g_iter' = [kind |-> "seq",
                                       rows |-> lhs_rows(g_lists, max_rows[1],
                                                         <<c1.out.perm, c2.out.perm>>)]
                         /\ g_rng' = [g_rng EXCEPT !.pos = c2.pos]
                         /\ g_memo' = c2.memo
                         /\ g_pc' = "write"
           ELSE GridRaise("ValueError") /\ UNCHANGED <<g_rng, g_memo>>
    /\ UNCHANGED <<g_config, g_run, g_lists, g_rows, g_prev, rvars, evars, svars>>

\* lines 156-176: the row loop takes the next tuple; with the random method
\* the tuple is drawn now (line 90), one rng.choice per parameter
WriteRow ==
    /\ g_pc = "write"
    /\ IF g_iter.kind = "seq"
       THEN /\ g_iter.rows # <<>>
            /\ g_rows' = Append(g_rows, Head(g_iter.rows))
            /\ g_iter' = [g_iter EXCEPT !.rows = Tail(@)]
            /\ UNCHANGED <<g_pc, g_rng, g_memo>>
       ELSE /\ g_iter.left > 0
            /\ \E c1 \in rng_call(RngState, { [choice |-> i] : i \in 1..Len(g_lists[1]) }) :
                 IF Len(g_lists[2]) = 0
                 THEN /\ GridRaise("ValueError")
                      /\ g_rng' = [g_rng EXCEPT !.pos = c1.pos]
                      /\ g_memo' = c1.memo
                      /\ UNCHANGED g_rows
                 ELSE \E c2 \in rng_call([pos |-> c1.pos, memo |-> c1.memo],
                                         { [choice |-> i] : i \in 1..Len(g_lists[2]) }) :
                        /\ g_rows' = Append(g_rows, <<g_lists[1][c1.out.choice],
                                                      g_lists[2][c2.out.choice]>>)
                        /\ g_iter' = [g_iter EXCEPT !.left = @ - 1]
                        /\ g_rng' = [g_rng EXCEPT !.pos = c2.pos]
                        /\ g_memo' = c2.memo
                        /\ UNCHANGED g_pc
    /\ UNCHANGED <<g_config, g_run, g_lists, g_prev, rvars, evars, svars>>

Exhausted ==
    IF g_iter.kind = "seq" THEN g_iter.rows = <<>> ELSE g_iter.left = 0

\* line 177: the iterator is exhausted and the file is closed
FinishGrid ==
    /\ g_pc = "write" /\ Exhausted
    /\ g_pc' = "done"
    /\ UNCHANGED <<g_config, g_run, g_rng, g_memo, g_lists, g_iter, g_rows, g_prev,
                   rvars, evars, svars>>

\* generate_grid is run once more, in a new process, with the same
\* configuration file and its seed
GenerateAgain ==
    /\ g_pc \in {"done", "raised"} /\ g_run = 1 /\ g_config.seed # <<>>
    /\ g_run' = 2
    /\ g_prev' = [pc |-> g_pc, rows |-> g_rows]
    /\ g_pc' = "resolve"
    /\ g_rng' = default_rng(g_config.seed)
    /\ g_lists' = <<>> /\ g_iter' = None /\ g_rows' = <<>>
    /\ UNCHANGED <<g_config, g_memo, rvars, evars, svars>>

SamplerNext ==
    \/ ResolveValues
    \/ SampleParameterSpace
    \/ WriteRow
    \/ FinishGrid
    \/ GenerateAgain

SpecSampler == SamplerInit /\ [][SamplerNext]_vars

\* ------------------------------------- properties of the grid generator
\* tuple r (from 1) of the Cartesian product of lists A and B, the last
\* parameter varying fastest
CartesianTuple(A, B, r) == <<A[((r - 1) \div Len(B)) + 1], B[((r - 1) % Len(B)) + 1]>>

\* the tuples a finished full-cartesian run has to have yielded
FullExpected(n) ==
    /\ Len(g_rows) = n
    /\ \A r \in 1..n : g_rows[r] = CartesianTuple(g_lists[1], g_lists[2], r)

FullDone == g_pc = "done" /\ g_config.method = "full"

\* C13: with the full method and no max_rows the sampler yields exactly the
\* a*b tuples of the Cartesian product in declared parameter order, the last
\* parameter varying fastest; with max_rows = k it yields exactly the first
\* min(k, a*b) of them, for every k >= 0, k = 0 included; and two calls with
\* the same inputs yield the same sequence.
C13_FullCartesian ==
    FullDone =>
        LET size == Len(g_lists[1]) * Len(g_lists[2])
        IN  /\ FullExpected(IF g_config.max_rows = <<>> THEN size
                            ELSE Min({g_config.max_rows[1], size}))
            /\ (g_run = 2 /\ g_prev.pc = "done") => g_rows = g_prev.rows

\* the same with max_rows = 0 read as no max_rows
C13_FullCartesianFromOne ==
    FullDone =>
        LET size == Len(g_lists[1]) * Len(g_lists[2])
        IN  /\ FullExpected(IF g_config.max_rows \in {<<>>, <<0>>} THEN size
                            ELSE Min({g_config.max_rows[1], size}))
            /\ (g_run = 2 /\ g_prev.pc = "done") => g_rows = g_prev.rows

LhsDone ==
    /\ g_pc = "done" /\ g_config.method = "latin_hypercube"
    /\ g_config.max_rows # <<>> /\ g_config.max_rows[1] >= 1

\* how many of the rows hold v in column k
ColumnCount(k, v) == Cardinality({ r \in 1..Len(g_rows) : g_rows[r][k] = v })

\* how many entries of the value list of parameter k are v
Multiplicity(k, v) == Cardinality({ i \in 1..Len(g_lists[k]) : g_lists[k][i] = v })

\* C14: for every parameter with value list V and every max_rows = N >= 1,
\* the latin_hypercube method produces exactly N rows and each element of V
\* is in that parameter's column floor(N/|V|) or ceil(N/|V|) times, whatever
\* permutation the random source draws.
C14_LatinHypercubeBalance ==
    LhsDone =>
        LET n == g_config.max_rows[1]
        IN  /\ Len(g_rows) = n
            /\ \A k \in 1..2 : \A i \in 1..Len(g_lists[k]) :
                  ColumnCount(k, g_lists[k][i]) \in
                      { n \div Len(g_lists[k]), CeilDiv(n, Len(g_lists[k])) }

\* C14 as amended: exactly N rows, and a value that fills m entries of V is
\* in the column at least m * floor(N/|V|) and at most m * ceil(N/|V|)
\* times (each entry of V is used floor(N/|V|) or ceil(N/|V|) times).
C14_LatinHypercubeBalanceByEntry ==
    LhsDone =>
        LET n == g_config.max_rows[1]
        IN  /\ Len(g_rows) = n
            /\ \A k \in 1..2 : \A i \in 1..Len(g_lists[k]) :
                  LET v == g_lists[k][i]
                      m == Multiplicity(k, v)
                  IN  /\ ColumnCount(k, v) >= m * (n \div Len(g_lists[k]))
                      /\ ColumnCount(k, v) <= m * CeilDiv(n, Len(g_lists[k]))
            /\ \A r \in 1..n : \A k \in 1..2 :
                  \E i \in 1..Len(g_lists[k]) : g_rows[r][k] = g_lists[k][i]

\* a finished latin_hypercube run of 3 rows over a list of two different
\* values and a list with one value twice
C14_Witness ==
    /\ LhsDone /\ g_config.max_rows = <<3>>
    /\ g_lists[1] = <<10, 20>> /\ Len(g_lists[2]) = 2 /\ g_lists[2][1] = g_lists[2][2]
    /\ ColumnCount(1, 20) = 1

\* C15: two independent runs of the grid generator with the same
\* configuration and the same seed produce identical sequences of grid rows,
\* row for row (random and latin_hypercube methods, distribution-valued
\* parameters).
C15_SeedDeterminism ==
    /\ g_run = 2 => /\ Len(g_rows) <= Len(g_prev.rows)
                    /\ g_rows = SubSeq(g_prev.rows, 1, Len(g_rows))
    /\ (g_run = 2 /\ g_pc \in {"done", "raised"}) =>
          g_pc = g_prev.pc /\ g_rows = g_prev.rows

\* a finished second run of the random method over drawn abundances whose
\* rows are not all alike
C15_Witness ==
    /\ g_run = 2 /\ g_pc = "done" /\ g_config.method = "random"
    /\ g_config.a.kind = "distribution"
    /\ Len(g_rows) = 3 /\ g_rows[1] # g_rows[2] /\ g_rows[2][1] # g_rows[3][1]

RangeResolved == g_pc \notin {"idle", "resolve"} /\ g_config.teff.kind = "range"

\* C16: for every range (min, max, step) with step > 0 and min <= max, also
\* when max - min is not a multiple of step, the resolved value list starts
\* at min, contains max, and contains no value greater than max.
C16_RangeEndpoints ==
    (RangeResolved /\ g_pc # "raised") =>
        LET values == g_lists[1]
            cfg == g_config.teff
        IN  /\ values # <<>> /\ values[1] = cfg.min
            /\ \E i \in 1..Len(values) : values[i] = cfg.max
            /\ \A i \in 1..Len(values) : values[i] <= cfg.max

\* ------------------------------------------------ the spectrum reader
\* A line of the file is [kind, marker, tokens]: a blank line, a comment
\* line (its stripped text starts with '#'; marker tells whether the text
\* holds "mu-points", and tokens are the words after it), or a data line
\* with its whitespace-separated tokens.  A token is a number or not.

Num(v) == [num |-> TRUE, v |-> v]
Bad == [num |-> FALSE, v |-> 0]

Blank == [kind |-> "blank", marker |-> "absent", tokens |-> <<>>]
Comment(marker, tokens) == [kind |-> "comment", marker |-> marker, tokens |-> tokens]
Data(tokens) == [kind |-> "data", marker |-> "absent", tokens |-> tokens]

\* a row of n numeric columns whose values tell the row and the column
Row(r, n) == Data([c \in 1..n |-> Num(10 * r + c)])

\* the row with the token of column c (from 1) not a number
BadAt(row, c) == [row EXCEPT !.tokens[c] = Bad]

\* lines 28-35: the last comment line before the first data line, and the
\* 0-based index of that data line (0 when there is none)
RECURSIVE ScanHeader(_, _, _)
ScanHeader(lines, i, header_line) ==
    IF i > Len(lines) THEN [header_line |-> header_line, data_start |-> 0]
    ELSE IF lines[i].kind = "comment" THEN ScanHeader(lines, i + 1, lines[i])
    ELSE IF lines[i].kind # "blank"
         THEN [header_line |-> header_line, data_start |-> i - 1]
    ELSE ScanHeader(lines, i + 1, header_line)

\* the appends of one data row, in the order lines 65-79 make them; the
\* intensity appends are guarded by "col < len(parts)"
RowOps(is_intensity, mu_points) ==
    << [target |-> "wavelength", mu |-> 0, col |-> 0, guarded |-> FALSE],
       [target |-> "flux_norm", mu |-> 0, col |-> 1, guarded |-> FALSE],
       [target |-> "flux_abs", mu |-> 0, col |-> 2, guarded |-> FALSE] >>
    \o (IF is_intensity
        THEN Concat([i \in 1..Len(mu_points) |->
               << [target |-> "intensity_abs", mu |-> mu_points[i],
                   col |-> 3 + 2 * (i - 1), guarded |-> TRUE],
                  [target |-> "intensity_norm", mu |-> mu_points[i],
                   col |-> 4 + 2 * (i - 1), guarded |-> TRUE] >>])
        ELSE <<>>)

\* list.append(float(parts[col])) on the list the op names
AppendTo(acc, op, x) ==
    IF op.target = "wavelength" THEN [acc EXCEPT !.wavelength = Append(@, x)]
    ELSE IF op.target = "flux_norm" THEN [acc EXCEPT !.flux_norm = Append(@, x)]
    ELSE IF op.target = "flux_abs" THEN [acc EXCEPT !.flux_abs = Append(@, x)]
    ELSE IF op.target = "intensity_abs"
         THEN [acc EXCEPT !.intensity_abs[op.mu] = Append(@, x)]
    ELSE [acc EXCEPT !.intensity_norm[op.mu] = Append(@, x)]

\* lines 63-82: the appends of one row up to the first IndexError or
\* ValueError, which ends the row and keeps what was appended
RECURSIVE RunOps(_, _, _)
RunOps(acc, ops, parts) ==
    IF ops = <<>> THEN acc
    ELSE LET op == Head(ops)
         IN  IF op.guarded /\ op.col >= Len(parts) THEN RunOps(acc, Tail(ops), parts)
             ELSE IF op.col >= Len(parts) THEN acc
             ELSE IF ~parts[op.col + 1].num THEN acc
             ELSE RunOps(AppendTo(acc, op, parts[op.col + 1].v), Tail(ops), parts)

\* line.split() of a line of the data part: a comment line gives words
\* of which the first starts with '#'
Parts(line) == IF line.kind = "comment" THEN <<Bad>> \o line.tokens ELSE line.tokens

\* lines 58-82: the loop over lines[data_start:]
RECURSIVE DataLoop(_, _, _, _)
DataLoop(acc, lines, i, ops) ==
    IF i > Len(lines) THEN acc
    ELSE IF Parts(lines[i]) = <<>> THEN DataLoop(acc, lines, i + 1, ops)
    ELSE DataLoop(RunOps(acc, ops, Parts(lines[i])), lines, i + 1, ops)

\* lines 25-113
read_spectrum(lines) ==
    LET scan == ScanHeader(lines, 1, None)
        header_line == scan.header_line
        is_intensity == header_line.kind = "comment" /\ header_line.marker # "absent"
        declared == IF is_intensity /\ header_line.marker = "token"
                    THEN header_line.tokens ELSE <<>>
        mu_points == [i \in 1..Len(declared) |-> declared[i].v]
        keys == { mu_points[i] : i \in 1..Len(mu_points) }
        empty == [wavelength |-> <<>>, flux_norm |-> <<>>, flux_abs |-> <<>>,
                  intensity_abs |-> [mu \in keys |-> <<>>],
                  intensity_norm |-> [mu \in keys |-> <<>>]]
        acc == DataLoop(empty, lines, scan.data_start + 1,
                        RowOps(is_intensity, mu_points))
    IN  IF \E i \in 1..Len(declared) : ~declared[i].num THEN Raise("ValueError")
        ELSE [kind |-> "return",
              mode |-> IF is_intensity THEN "Intensity" ELSE "Flux",
              wavelength |-> acc.wavelength, flux_norm |-> acc.flux_norm,
              flux_abs |-> acc.flux_abs, mu_points |-> mu_points,
              intensity_abs |-> acc.intensity_abs,
              intensity_norm |-> acc.intensity_norm]

\* the lines a file is made of: mu-points are in tenths
HeaderLines ==
    { Comment("absent", <<>>), Comment("glued", <<>>),
      Comment("token", <<Num(5), Num(10)>>), Comment("token", <<Num(5), Num(5)>>),
      Comment("token", <<Num(5), Bad>>) }

DataLines ==
    { Row(1, 7), Row(2, 7), Row(3, 3), Row(6, 2), Row(7, 5),
      BadAt(Row(4, 3), 1), BadAt(Row(4, 3), 2), BadAt(Row(4, 3), 3),
      BadAt(Row(5, 7), 6) }

LineSet == {Blank} \cup HeaderLines \cup DataLines

SpectrumFiles == UNION { [1..n -> LineSet] : n \in 0..MaxLines }

ParserInit ==
    /\ EngineIdle /\ ResolverIdle /\ SamplerIdle
    /\ s_pc = "call"
    /\ s_file \in SpectrumFiles
    /\ s_result = None

\* a caller reads one spectrum file
ReadSpectrum ==
    /\ s_pc = "call"
    /\ s_result' = read_spectrum(s_file)
    /\ s_pc' = "done"
    /\ UNCHANGED <<s_file, rvars, evars, gvars>>

ParserNext == ReadSpectrum

SpecParser == ParserInit /\ [][ParserNext]_vars

\* ---- properties of the spectrum reader

DataRows(lines) == SelectSeq(lines, LAMBDA l : l.kind = "data")

\* C17: read_spectrum fails with a parse error when the file is empty and
\* when it holds no data row, and never returns a spectrum with zero rows
C17_EmptyFileFails ==
    s_pc = "done" =>
        /\ DataRows(s_file) = <<>> => s_result.kind = "raise"
        /\ s_result.kind = "return" => Len(s_result.wavelength) > 0

\* the sequences a result holds
Sequences(r) ==
    {r.wavelength, r.flux_norm, r.flux_abs}
    \cup { r.intensity_abs[mu] : mu \in DOMAIN r.intensity_abs }
    \cup { r.intensity_norm[mu] : mu \in DOMAIN r.intensity_norm }

\* the row a parsed value was read from: Row(r, n) holds 10 * r + c in column c
RowOf(v) == v \div 10

\* C18: all returned sequences (wavelength, normalized and absolute flux, and
\* every per-mu absolute and normalized intensity sequence) have one length,
\* and index j of each refers to the same file row
C18_OneLength ==
    s_pc = "done" /\ s_result.kind = "return" =>
        \A a, b \in Sequences(s_result) :
            /\ Len(a) = Len(b)
            /\ \A j \in 1..Len(a) : RowOf(a[j]) = RowOf(b[j])

\* the columns the reader consumes from a row under the file's header
Consumed(line, n) == { c \in 1..Len(line.tokens) : c <= 3 + 2 * n }

Malformed(line, n) ==
    line.kind = "data" /\ \E c \in Consumed(line, n) : ~line.tokens[c].num

Values(r) == UNION { { q[j] : j \in 1..Len(q) } : q \in Sequences(r) }

Column(rows, c) == [i \in 1..Len(rows) |-> rows[i].tokens[c].v]

\* C19: a data row in which a consumed column is not numeric contributes no
\* value to any output sequence, the parse does not fail, and the rows of three
\* numeric columns are parsed in file order
C19_MalformedOmittedWhole ==
    s_pc = "done" /\ s_result.kind = "return" =>
        LET n == Len(s_result.mu_points)
            rows == DataRows(s_file)
            well == SelectSeq(rows, LAMBDA l : Len(l.tokens) >= 3 /\ ~Malformed(l, n))
            kept == { well[i].tokens[1].v : i \in 1..Len(well) }
        IN  /\ \A i \in 1..Len(rows) :
                 Malformed(rows[i], n) =>
                     \A c \in 1..Len(rows[i].tokens) :
                         rows[i].tokens[c].num => rows[i].tokens[c].v \notin Values(s_result)
            /\ SelectSeq(s_result.wavelength, LAMBDA x : x \in kept) = Column(well, 1)

\* a file of one header line that declares mu-points and, after it, only
\* data rows of 3 + 2n numeric columns
DeclaredIntensity ==
    /\ Len(s_file) >= 2
    /\ s_file[1].kind = "comment" /\ s_file[1].marker = "token"
    /\ \A i \in 1..Len(s_file[1].tokens) : s_file[1].tokens[i].num
    /\ \A k \in 2..Len(s_file) :
          /\ s_file[k].kind = "data"
          /\ Len(s_file[k].tokens) = 3 + 2 * Len(s_file[1].tokens)
          /\ \A c \in 1..Len(s_file[k].tokens) : s_file[k].tokens[c].num

\* C20: for a header declaring mu-points v_0 .. v_(n-1) and rows of 3 + 2n
\* numeric columns the result has mode Intensity, mu_points as declared with
\* repeats kept, and for every i the absolute intensity of the i-th mu is
\* column 3 + 2i of every row and its normalized intensity column 4 + 2i
C20_IntensityColumns ==
    s_pc = "done" /\ DeclaredIntensity =>
        LET declared == s_file[1].tokens
            rows == SubSeq(s_file, 2, Len(s_file))
        IN  /\ s_result.kind = "return"
            /\ s_result.mode = "Intensity"
            /\ s_result.mu_points = [i \in 1..Len(declared) |-> declared[i].v]
            /\ \A i \in 1..Len(declared) :
                  /\ s_result.intensity_abs[declared[i].v] = Column(rows, 4 + 2 * (i - 1))
                  /\ s_result.intensity_norm[declared[i].v] = Column(rows, 5 + 2 * (i - 1))

\* the comment lines before the first data line
LeadingComments(lines) ==
    { i \in 1..Len(lines) :
        /\ lines[i].kind = "comment"
        /\ \A k \in 1..(i - 1) : lines[k].kind # "data" }

\* C21: all leading comment lines form the header and the mode is Intensity
\* if and only if one of them holds the mu-points marker, also when further
\* comment lines follow the marker line; data rows start at the first line
\* that is neither a comment nor blank, and no comment line is parsed as a
\* data row
C21_HeaderAndMode ==
    s_pc = "done" /\ s_result.kind = "return" =>
        LET rows == DataRows(s_file)
        IN  /\ s_result.mode = "Intensity" <=>
                  \E i \in LeadingComments(s_file) : s_file[i].marker # "absent"
            /\ \A i \in 1..Len(s_file) :
                  s_file[i].kind = "comment" =>
                      \A c \in 1..Len(s_file[i].tokens) :
                          s_file[i].tokens[c].v \notin Values(s_result)
            /\ rows # <<>> /\ rows[1].tokens[1].num =>
                  /\ s_result.wavelength # <<>>
                  /\ s_result.wavelength[1] = rows[1].tokens[1].v

\* ---- the setup before the pool

\* once the pool exists, and whenever a job has started, the directories
\* were made once and the manifest was written once
C22_SetupDone ==
    /\ main_pc \in {"pool", "done", "raised"} =>
          manifest_writes = 1 /\ dirs_made = 1 /\ linelist_file = "written"
    /\ \A j \in Jobs : pc[j] # "queued" => manifest_writes = 1 /\ dirs_made = 1

\* a step that makes the directories or writes the manifest is a step of
\* run_grid before any job has started, and no step of a job
C22_SetupStep ==
    (manifest_writes' # manifest_writes \/ dirs_made' # dirs_made
        \/ linelist_file' # linelist_file) =>
        /\ main_pc = "setup"
        /\ \A j \in Jobs : pc[j] = "queued"
        /\ pc' = pc

\* C22: in every run_grid call the directories are created and the linelist
\* manifest is written exactly once, before any worker starts a job, and no
\* job running in a worker creates the directories or writes the manifest
C22_SetupOnceBeforePool == []C22_SetupDone /\ [][C22_SetupStep]_vars

C22_Witness ==
    /\ main_pc = "done" /\ manifest_writes = 1 /\ dirs_made = 1
    /\ Len(config.grid_points) = MaxPoints
    /\ \A j \in Jobs : value[j].kind = "SUCCESS" /\ calls[j] # <<>>

\* ---- the summary

\* nothing is reported before the summary, and the summary holds every
\* job's result and counts the SUCCESS results only
C23_Reported ==
    /\ main_pc # "done" => results = <<>> /\ success_count = 0
    /\ main_pc = "done" =>
          /\ \A j \in Jobs : pc[j] = "done" /\ value[j] # None /\ results[j] = value[j]
          /\ Len(results) = Len(config.grid_points)
          /\ success_count = Cardinality({ j \in Jobs : value[j].kind = "SUCCESS" })
          /\ success_count <= Len(config.grid_points)

\* the step that reports is taken when every job has returned
C23_ReportStep ==
    (results' # results \/ success_count' # success_count) =>
        /\ \A j \in Jobs : pc[j] = "done"
        /\ main_pc' = "done"

\* C23: the summary is produced only after every job of the batch has
\* returned, no job outcome is reported before that, and the success count is
\* the number of jobs whose outcome is Success (Skipped and Error are not
\* counted) out of a total equal to the number of grid points
C23_SingleBarrier == []C23_Reported /\ [][C23_ReportStep]_vars

C23_Witness ==
    /\ main_pc = "done" /\ success_count = 1
    /\ \E j, k \in Jobs : value[j].kind = "SUCCESS" /\ value[k].kind = "WARNING"

\* ---- the job log

Called(q, tool) == \E k \in 1..Len(q) : q[k].tool = tool

\* block a is in the log, and block b after it
BlockThen(log, a, b) ==
    \E m, n \in 1..Len(log) : m < n /\ log[m] = a /\ log[n] = b

\* job j returns in this step
Returns(j) == j \in Jobs /\ pc[j] # "done" /\ pc'[j] = "done"

\* C24: when a job that has invoked the opacity tool returns, with Success or
\* with an opacity or synthesis Error, the log file of its grid point is on
\* disk and holds the opacity protocol block and, if the synthesis tool was
\* invoked, the synthesis protocol block after it; a job that returns Skipped
\* or a model-resolution Error creates no log file
C24_LogStep ==
    \A j \in 1..MaxPoints :
        Returns(j) =>
            /\ Called(calls'[j], "babsma") =>
                  /\ value'[j].kind \in {"SUCCESS", "ERROR", "EXCEPTION"}
                  /\ model_file(j) \in DOMAIN log_dir'
                  /\ \E m \in 1..Len(log_dir'[model_file(j)]) :
                        log_dir'[model_file(j)][m] = "BABSMA INPUT"
                  /\ Called(calls'[j], "bsyn") =>
                        BlockThen(log_dir'[model_file(j)], "BABSMA INPUT", "BSYN INPUT")
            /\ (~Called(calls'[j], "babsma") /\ value'[j].kind \in {"WARNING", "ERROR"}) =>
                  log_file(j) \notin writes'[j]

C24_LogFileExists == [][C24_LogStep]_vars

C24_Witness ==
    \E j, k \in Jobs :
        /\ pc[j] = "done" /\ value[j].kind = "ERROR" /\ Called(calls[j], "bsyn")
        /\ BlockThen(log_dir[model_file(j)], "BABSMA INPUT", "BSYN INPUT")
        /\ pc[k] = "done" /\ value[k].kind = "ERROR" /\ ~Called(calls[k], "babsma")
        /\ model_file(k) \notin DOMAIN log_dir

\* ---- the MARCS-FILE flag

\* the model file of job j can be read and its first line holds INTERPOL
FirstLineInterpol(j) ==
    model_file(j) \in DOMAIN model_dir /\ model_dir[model_file(j)] = "INTERPOL"

\* the MARCS-FILE value of the last call of job j
FlagSent(q) == Last(q).stdin.MARCS_FILE

\* the job reads the first line: is_marcs is false exactly when it holds
\* the marker
C25_ReadStep ==
    \A j \in 1..MaxPoints :
        (j \in Jobs /\ pc[j] = "read_model" /\ pc'[j] # "read_model") =>
            (local'[j].is_marcs <=> ~FirstLineInterpol(j))

\* nothing after the read changes what was decided, and the opacity tool is
\* sent '.false.' exactly when is_marcs is false
C25_SendStep ==
    \A j \in 1..MaxPoints :
        (j \in Jobs /\ pc[j] \in {"open_log", "babsma"}) =>
            /\ local'[j].is_marcs = local[j].is_marcs
            /\ pc[j] = "babsma" /\ Len(calls'[j]) > Len(calls[j]) =>
                  /\ Last(calls'[j]).tool = "babsma"
                  /\ FlagSent(calls'[j]) = IF local[j].is_marcs THEN ".true." ELSE ".false."

\* C25: the MARCS-FILE value sent to the opacity tool is '.false.' if and only
\* if the first line of the model file, as the job read it, holds the INTERPOL
\* marker, and '.true.' otherwise, also when the file cannot be read; it does
\* not depend on whether this job ran the interpolation
C25_MarcsFlag == [][C25_ReadStep /\ C25_SendStep]_vars

\* a job that found an interpolated model without interpolating sent
\* '.false.', as did the job that interpolated it
C25_Witness ==
    \E j, k \in Jobs :
        /\ Len(calls[j]) >= 1 /\ calls[j][1].tool = "babsma"
        /\ calls[j][1].stdin.MARCS_FILE = ".false."
        /\ Len(calls[k]) >= 2 /\ calls[k][1].tool = "interpol" /\ calls[k][2].tool = "babsma"
        /\ calls[k][2].stdin.MARCS_FILE = ".false."

\* ---- skipping after a failure

\* job k of a run returned Success and its synthesis wrote the result file
SucceededWriting(vals, cls, k) ==
    /\ vals[k].kind = "SUCCESS"
    /\ cls[k] # <<>> /\ Last(cls[k]).tool = "bsyn" /\ Last(cls[k]).wrote

\* C26: starting with no output files and without force, a grid point whose
\* jobs returned Error is attempted again by a later run, and a Skipped
\* outcome is only produced for a grid point whose expected output was
\* written by a job that returned Success
C26_FailedJobsRetried ==
    \A j \in Jobs :
        (pc[j] = "done" /\ value[j].kind = "WARNING") =>
            \/ \E k \in Jobs :
                  /\ expected_output(k) = expected_output(j)
                  /\ SucceededWriting(value, calls, k)
            \/ /\ run = 2
               /\ \E k \in Jobs :
                     /\ expected_output(k) = expected_output(j)
                     /\ SucceededWriting(prev.value, prev.calls, k)
====
